---- MODULE Spec2Model ----
(***************************************************************************)
(* Model of k3sup's `install` command (cmd/install.go): the provisioning   *)
(* flow of MakeInstall.RunE, credential resolution (loadAuthMethod,        *)
(* sshAgent) and the kubeconfig post-processing (rewriteKubeconfig,        *)
(* mergeConfigs, writeConfig).                                             *)
(*                                                                         *)
(* Byte strings are sequences of one-character strings, so that the        *)
(* replacer of rewriteKubeconfig is computed character by character.       *)
(***************************************************************************)
EXTENDS Integers, Sequences, FiniteSets, TLC

\* ------------------------------------------------------------------ bounds

\* Largest number of pieces a generated document is concatenated from.
MaxPieces == 2

\* ----------------------------------------------------------- byte strings

\* The three old strings of the replacer, install.go:424-428.
Loopback == <<"1", "2", "7", ".", "0", ".", "0", ".", "1">>

Localhost == <<"l", "o", "c", "a", "l", "h", "o", "s", "t">>

Default == <<"d", "e", "f", "a", "u", "l", "t">>

Tokens == {Loopback, Localhost, Default}

\* s[i..] starts with t.
HasPrefixAt(s, i, t) ==
    /\ i + Len(t) - 1 <= Len(s)
    /\ SubSeq(s, i, i + Len(t) - 1) = t

\* t occurs somewhere in s.
Contains(s, t) == \E i \in 1..Len(s) : HasPrefixAt(s, i, t)

\* Number of positions of s at which t starts.
Occurrences(s, t) == Cardinality({i \in 1..Len(s) : HasPrefixAt(s, i, t)})

Chars(s) == {s[i] : i \in 1..Len(s)}

TokenChars == UNION {Chars(t) : t \in Tokens}

\* ---------------------------------------------------- strings.Replacer

\* strings.NewReplacer(old1, new1, old2, new2, ...): the argument pairs in
\* order.  Earlier pairs have priority when several old strings match at the
\* same position.
NewReplacer(pairs) == pairs

\* Index of the first pair whose old string matches at s[i..], 0 if none.
Lookup(r, s, i) ==
    IF \E k \in 1..Len(r) : HasPrefixAt(s, i, r[k].old)
    THEN CHOOSE k \in 1..Len(r) :
            /\ HasPrefixAt(s, i, r[k].old)
            /\ \A j \in 1..(k - 1) : ~HasPrefixAt(s, i, r[j].old)
    ELSE 0

\* Replacer.Replace: one pass from left to right; at a match the new string is
\* emitted and the scan resumes after the old string (the emitted text is not
\* scanned again); otherwise the byte is copied.
RECURSIVE ReplaceFrom(_, _, _)
ReplaceFrom(r, s, i) ==
    IF i > Len(s) THEN <<>>
    ELSE LET k == Lookup(r, s, i) IN
         IF k = 0
         THEN <<s[i]>> \o ReplaceFrom(r, s, i + 1)
         ELSE r[k].new \o ReplaceFrom(r, s, i + Len(r[k].old))

Replace(r, s) == ReplaceFrom(r, s, 1)

\* install.go:420-422
EffectiveContextKeepsEmpty(ctx) == ctx

EffectiveContext(ctx) == IF ctx = <<>> THEN Default ELSE ctx

\* The replacer built at install.go:424-428.
KubeconfigReplacerDropLocalhost(addr, ctx) ==
    NewReplacer(<< [old |-> Loopback, new |-> addr],
                   [old |-> Default, new |-> ctx] >>)

KubeconfigReplacer(addr, ctx) ==
    NewReplacer(<< [old |-> Loopback, new |-> addr],
                   [old |-> Localhost, new |-> addr],
                   [old |-> Default, new |-> ctx] >>)

\* install.go:419-431
rewriteKubeconfig(doc, addr, ctx) ==
    Replace(KubeconfigReplacer(addr, EffectiveContext(ctx)), doc)

\* ------------------------------------------------------------ input sets

\* Pieces documents are built from: the three tokens, fragments of them and
\* neutral bytes.
Pieces ==
    { Loopback, Localhost, Default,
      <<"2", "7", ".", "0", ".", "0", ".", "1">>,
      <<"e", "f", "a", "u", "l", "t">>,
      <<"l", "o", "c", "a", "l">>,
      <<":">>,
      <<"x">> }

RECURSIVE DocsOf(_)
DocsOf(n) ==
    IF n = 0 THEN {<<>>}
    ELSE LET shorter == DocsOf(n - 1) IN
         shorter \cup {d \o p : d \in shorter, p \in Pieces}

Documents == DocsOf(MaxPieces)

\* Values of --ip (rendered by ip.String()); 127.0.0.1 is the flag's default.
TargetAddresses ==
    { Loopback,
      <<"1", "0", ".", "0", ".", "0", ".", "1">>,
      <<"9", ".", "9", ".", "9", ".", "9">> }

\* Values of --context; "default" is the flag's default.
ContextNames ==
    { <<>>, Default, <<"p", "r", "o", "d">>, <<"k", "3">> }

\* ------------------------------------------------------------------- state

VARIABLES
    local,          \* --local                         install.go:108
    skipInstall,    \* --skip-install                  install.go:73
    merge,          \* --merge                         install.go:119
    sshKeyPath,     \* expandPath(--ssh-key)           install.go:187
    ip,             \* ip.String()                     install.go:110
    context,        \* --context                       install.go:123
    pc,             \* the next step of RunE
    err,            \* the error RunE returns, Nil while none
    defers,         \* RunE's stack of deferred calls, top first
    log,            \* the I/O performed so far, in order
    authMethod,     \* install.go:189
    closeSSHAgent,  \* install.go:189, the close function of the auth method
    close,          \* loadAuthMethod's local, install.go:390
    agentConn,      \* the connection to the SSH agent socket
    keyKind,        \* what ReadFile/ParsePrivateKey found at sshKeyPath
    fallback,       \* what sshAgent(publicKeyPath) found
    passphrase,     \* what terminal.ReadPassword returned
    opState,        \* the operator's lifecycle state
    resStdOut,      \* res.StdOut of the retrieval command, install.go:257
    kubeconfig,     \* obtainKubeconfig's local, install.go:267
    mergeOutcome,   \* how far mergeConfigs got
    mergeData,      \* the data cmd.Output() captured, install.go:318
    destFile,       \* the file at absPath
    tempFile,       \* the file created by ioutil.TempFile, install.go:300
    other           \* a second invocation of the command on the same absPath

flagVars == <<local, skipInstall, merge, sshKeyPath, ip, context>>

credVars == <<authMethod, closeSSHAgent, close, agentConn, keyKind, fallback, passphrase>>

docVars == <<resStdOut, kubeconfig, mergeOutcome, mergeData>>

fileVars == <<destFile, tempFile>>

vars == <<local, skipInstall, merge, sshKeyPath, ip, context, pc, err, defers, log,
          authMethod, closeSSHAgent, close, agentConn, keyKind, fallback, passphrase,
          opState, resStdOut, kubeconfig, mergeOutcome, mergeData, destFile, tempFile,
          other>>

Nil == "nil"

NoFile == [exists |-> FALSE, data |-> <<>>]

File(data) == [exists |-> TRUE, data |-> data]

\* One entry of the log: the operation, whether it succeeded, and the state
\* the operator was in when it was issued.
Ev(op, ok) == [op |-> op, ok |-> ok, st |-> opState]

Count(op) == Cardinality({i \in 1..Len(log) : log[i].op = op})

Did(op) == \E i \in 1..Len(log) : log[i].op = op

Succeeded(op) == \E i \in 1..Len(log) : log[i].op = op /\ log[i].ok

\* --------------------------------------------------- credential resolution

KeyKinds == {"unreadable", "plain", "corrupt", "encrypted"}

FallbackOutcomes == {"nodial", "nokeys", "pubunreadable", "pubcorrupt", "nomatch", "match"}

PassphraseInputs == {"correct", "wrong", "readerr"}

\* `defer f()` in RunE.
DeferDropAuthClose(stack, f) == IF f = "closeSSHAgent" THEN stack ELSE <<f>> \o stack

DeferDropOperatorClose(stack, f) == IF f = "operator.Close" THEN stack ELSE <<f>> \o stack

Defer(stack, f) == <<f>> \o stack

\* Calling a close function: sshAgentConn.Close closes the connection, the
\* no-op close does nothing.
InvokeClose(fn, conn) == IF fn = "connClose" THEN "closed" ELSE conn

\* install.go:189-194: RunE receives loadAuthMethod's results.
ResolveReturnsIgnoringError(method, closeFn, e) ==
    /\ authMethod' = method
    /\ closeSSHAgent' = closeFn
    /\ err' = err
    /\ pc' = "NewSSHOperator"
    /\ defers' = Defer(defers, "closeSSHAgent")

ResolveReturns(method, closeFn, e) ==
    /\ authMethod' = method
    /\ closeSSHAgent' = closeFn
    /\ IF e # Nil
       THEN /\ err' = e
            /\ pc' = "return"
            /\ defers' = defers
       ELSE /\ err' = err
            /\ pc' = "NewSSHOperator"
            /\ defers' = Defer(defers, "closeSSHAgent")

\* install.go:384-388: the outcome of ssh.ParsePrivateKey decides what follows.
ParseDecisionCorruptFallsThrough(kind) ==
    CASE kind = "unreadable" -> "KeyReadError"
      [] kind = "plain"      -> "signer"
      [] kind = "corrupt"    -> "fallback"
      [] kind = "encrypted"  -> "fallback"

ParseDecisionPlainNeedsPassphrase(kind) ==
    CASE kind = "unreadable" -> "KeyReadError"
      [] kind = "plain"      -> "fallback"
      [] kind = "corrupt"    -> "KeyParseError"
      [] kind = "encrypted"  -> "fallback"

ParseDecision(kind) ==
    CASE kind = "unreadable" -> "KeyReadError"
      [] kind = "plain"      -> "signer"
      [] kind = "corrupt"    -> "KeyParseError"
      [] kind = "encrypted"  -> "fallback"

\* install.go:366-388 (and 416 for an unencrypted key)
LoadAuthMethod ==
    /\ pc = "loadAuthMethod"
    /\ IF sshKeyPath = ""
       THEN \E up \in BOOLEAN :
              /\ agentConn' = IF up THEN "open" ELSE agentConn
              /\ log' = log \o <<Ev("dial", up), Ev("resolve", up)>>
              /\ ResolveReturns(IF up THEN "agentSigners" ELSE Nil,
                                IF up THEN "connClose" ELSE "noop",
                                IF up THEN Nil ELSE "AgentUnreachable")
              /\ UNCHANGED keyKind
       ELSE \E kind \in KeyKinds :
              LET d == ParseDecision(kind) IN
              /\ keyKind' = kind
              /\ agentConn' = agentConn
              /\ IF d = "fallback"
                 THEN /\ log' = log \o <<Ev("readKey", TRUE)>>
                      /\ pc' = "sshAgent"
                      /\ UNCHANGED <<authMethod, closeSSHAgent, err, defers>>
                 ELSE /\ log' = log \o <<Ev("readKey", kind # "unreadable"),
                                         Ev("resolve", d = "signer")>>
                      /\ ResolveReturns(IF d = "signer" THEN "signer" ELSE Nil,
                                        "noop",
                                        IF d = "signer" THEN Nil ELSE d)
    /\ UNCHANGED <<other, flagVars, close, fallback, passphrase, opState, docVars, fileVars>>

\* install.go:337-364: what sshAgent returns for each thing it can find.  When
\* no identity matches, the loop at 357-361 ends and control leaves the `if`
\* block to line 363, which returns the no-op close although the connection
\* was dialed.
sshAgentAnyKeyMatches(found) ==
    [agent |-> IF found \in {"nomatch", "match"} THEN "agentKey" ELSE Nil,
     close |-> IF found = "nodial" THEN "noop" ELSE "connClose"]

sshAgent(found) ==
    [agent |-> IF found = "match" THEN "agentKey" ELSE Nil,
     close |-> IF found \in {"nodial", "nomatch"} THEN "noop" ELSE "connClose"]

\* install.go:390-395: the agent fallback for a passphrase-protected key.
AgentFallback ==
    /\ pc = "sshAgent"
    /\ \E found \in FallbackOutcomes :
         LET r == sshAgent(found)
             readsPub == found \in {"pubunreadable", "pubcorrupt", "nomatch", "match"}
         IN
         /\ fallback' = found
         /\ agentConn' = IF found # "nodial" THEN "open" ELSE agentConn
         /\ close' = r.close
         /\ IF r.agent # Nil
            THEN /\ log' = log \o <<Ev("dial", TRUE), Ev("readPub", TRUE), Ev("resolve", TRUE)>>
                 /\ ResolveReturns(r.agent, r.close, Nil)
            ELSE /\ log' = log \o <<Ev("dial", found # "nodial")>>
                             \o (IF readsPub THEN <<Ev("readPub", found # "pubunreadable")>>
                                 ELSE <<>>)
                 /\ pc' = "ReadPassword"
                 /\ UNCHANGED <<authMethod, closeSSHAgent, err, defers>>
    /\ UNCHANGED <<other, flagVars, keyKind, passphrase, opState, docVars, fileVars>>

\* install.go:410: ParsePrivateKeyWithPassphrase; a failed read of the
\* passphrase leaves the empty passphrase (install.go:399-406).
ParsesWithAnyPassphrase(input) == input # "readerr"

ParsesWithPassphrase(input) == input = "correct"

\* install.go:395-416: the prompt, the second parse, and the deferred close().
PromptPassphrase ==
    /\ pc = "ReadPassword"
    /\ \E input \in PassphraseInputs :
         LET ok == ParsesWithPassphrase(input) IN
         /\ passphrase' = input
         /\ log' = log \o <<Ev("prompt", input # "readerr"), Ev("resolve", ok)>>
         /\ agentConn' = InvokeClose(close, agentConn)
         /\ ResolveReturns(IF ok THEN "signer" ELSE Nil, "noop",
                           IF ok THEN Nil ELSE "PassphraseParseError")
    /\ UNCHANGED <<other, flagVars, close, keyKind, fallback, opState, docVars, fileVars>>

\* ---------------------------------------------------------------- operator

\* operator.Execute: valid only on an open operator; on a closed one it fails
\* with OperatorClosed without any I/O.
ExecuteOutcomes(st) ==
    IF st = "Open" THEN {"ok", "ExecutionError"} ELSE {"OperatorClosed"}

\* operator.Close tears the connection down.
OperatorClose(st) == "Closed"

\* install.go:213: the remote branch runs the installer unless --skip-install.
RemoteRunsInstall(skip) == ~skip

\* install.go:155-163: the local branch runs the installer unconditionally.
LocalRunsInstall(skip) == TRUE

\* What RunE does after a step: go on, or return the step's error.
ContinueOnError(outcome, next) == next

RetryOnError(outcome, next) == IF outcome = "ok" THEN next ELSE pc

Continue(outcome, next) == IF outcome = "ok" THEN next ELSE "return"

ErrorOf(outcome) == IF outcome = "ok" THEN err ELSE outcome

\* install.go:196-211
NewSSHOperator ==
    /\ pc = "NewSSHOperator"
    /\ \E ok \in BOOLEAN :
         /\ log' = log \o <<Ev("open", ok)>>
         /\ IF ok
            THEN /\ opState' = "Open"
                 /\ defers' = Defer(defers, "operator.Close")
                 /\ pc' = IF RemoteRunsInstall(skipInstall) THEN "install"
                          ELSE "obtainKubeconfig"
                 /\ err' = err
            ELSE /\ opState' = opState
                 /\ defers' = defers
                 /\ pc' = "return"
                 /\ err' = "ConnectError"
    /\ UNCHANGED <<other, flagVars, credVars, docVars, fileVars>>

\* install.go:213-226
RemoteInstall ==
    /\ pc = "install"
    /\ \E out \in ExecuteOutcomes(opState) :
         /\ log' = log \o <<Ev("install", out = "ok")>>
         /\ pc' = Continue(out, "obtainKubeconfig")
         /\ err' = ErrorOf(out)
    /\ UNCHANGED <<other, flagVars, credVars, docVars, fileVars, opState, defers>>

\* install.go:155-170: ExecOperator{} needs no connection, it is usable as
\* soon as it is constructed.
LocalInstall ==
    /\ pc = "localInstall"
    /\ opState' = "Open"
    /\ IF LocalRunsInstall(skipInstall)
       THEN \E out \in ExecuteOutcomes("Open") :
              /\ log' = log \o <<[op |-> "install", ok |-> out = "ok", st |-> "Open"]>>
              /\ pc' = Continue(out, "obtainKubeconfig")
              /\ err' = ErrorOf(out)
       ELSE /\ log' = log
            /\ pc' = "obtainKubeconfig"
            /\ err' = err
    /\ UNCHANGED <<other, flagVars, credVars, docVars, fileVars, defers>>

\* ----------------------------------------------------------- obtainKubeconfig

\* Documents the retrieval command can print (/etc/rancher/k3s/k3s.yaml).
RetrievedDocs ==
    { Loopback \o <<":">> \o Default,
      Localhost \o <<"x">> }

\* What the destination path can hold before the run.
ExistingDocs == { <<"x", ":">> \o Default }

\* install.go:257-263
ExecuteGetConfig ==
    /\ pc = "obtainKubeconfig"
    /\ \E out \in ExecuteOutcomes(opState) :
         /\ log' = log \o <<Ev("retrieve", out = "ok")>>
         /\ pc' = Continue(out, "rewrite")
         /\ err' = ErrorOf(out)
         /\ IF out = "ok"
            THEN \E doc \in RetrievedDocs : resStdOut' = doc
            ELSE resStdOut' = resStdOut
    /\ UNCHANGED <<other, flagVars, credVars, fileVars, opState, defers,
                   kubeconfig, mergeOutcome, mergeData>>

\* install.go:265-269
Rewrite ==
    /\ pc = "rewrite"
    /\ kubeconfig' = rewriteKubeconfig(resStdOut, ip, context)
    /\ log' = log \o <<Ev("rewrite", TRUE)>>
    /\ pc' = IF merge THEN "mergeConfigs" ELSE "writeConfig"
    /\ UNCHANGED <<other, flagVars, credVars, fileVars, opState, defers, err,
                   resStdOut, mergeOutcome, mergeData>>

\* install.go:313-318: `kubectl config view --merge --flatten` over
\* KUBECONFIG=<existing>:<temp>; a missing file contributes nothing.
KubectlViewTempOnly(existing, new) == new

KubectlView(existing, new) ==
    (IF existing.exists THEN existing.data ELSE <<>>) \o new

MergeOutcomes ==
    {"TempFileError", "TempWriteError", "MergeToolError", "TempCleanupError", "ok"}

\* The temporary file mergeConfigs leaves behind, install.go:300-327.
TempFileAfter(outcome, doc) ==
    CASE outcome = "TempFileError"    -> NoFile
      [] outcome = "TempWriteError"   -> File(<<>>)
      [] outcome = "MergeToolError"   -> File(doc)
      [] outcome = "TempCleanupError" -> File(doc)
      [] outcome = "ok"               -> NoFile

\* What mergeConfigs returns, install.go:302, 307, 320, 326, 329.
MergeReturnDropsData(outcome, data) ==
    [data |-> <<>>, err |-> IF outcome = "ok" THEN Nil ELSE outcome]

MergeReturn(outcome, data) ==
    IF outcome = "ok"
    THEN [data |-> data, err |-> Nil]
    ELSE [data |-> <<>>, err |-> outcome]

\* install.go:269-275 and 298-330
MergeConfigs ==
    /\ pc = "mergeConfigs"
    /\ \E outcome \in MergeOutcomes :
         LET captured == IF outcome \in {"TempCleanupError", "ok"}
                         THEN KubectlView(destFile, kubeconfig) ELSE <<>>
             ret == MergeReturn(outcome, captured)
         IN
         /\ mergeOutcome' = outcome
         /\ mergeData' = captured
         /\ tempFile' = TempFileAfter(outcome, kubeconfig)
         /\ kubeconfig' = ret.data
         /\ log' = log \o <<Ev("merge", outcome = "ok")>>
         /\ pc' = Continue(outcome, "writeConfig")
         /\ err' = ErrorOf(outcome)
    /\ UNCHANGED <<other, flagVars, credVars, opState, defers, resStdOut, destFile>>

WriteOutcomes == {"ok", "openfail", "shortwrite"}

\* ioutil.WriteFile truncates the file before it writes, install.go:291.
WriteFile(file, data, outcome) ==
    CASE outcome = "ok"         -> File(data)
      [] outcome = "openfail"   -> file
      [] outcome = "shortwrite" -> File(<<>>)

\* install.go:277-281 and 285-296
WriteConfig ==
    /\ pc = "writeConfig"
    /\ \E outcome \in WriteOutcomes :
         /\ destFile' = WriteFile(destFile, kubeconfig, outcome)
         /\ log' = log \o <<Ev("write", outcome = "ok")>>
         /\ pc' = "return"
         /\ err' = IF outcome = "ok" THEN err ELSE "PersistError"
    /\ UNCHANGED <<other, flagVars, credVars, opState, defers, docVars, tempFile>>

\* ------------------------------------------------------------ RunE's return

\* The deferred calls run when RunE returns, last deferred first
\* (install.go:194, 211).
RunDeferred ==
    /\ pc = "return"
    /\ defers # <<>>
    /\ LET f == Head(defers) IN
       /\ log' = log \o <<Ev(f, TRUE)>>
       /\ opState' = IF f = "operator.Close" THEN OperatorClose(opState) ELSE opState
       /\ agentConn' = IF f = "closeSSHAgent" THEN InvokeClose(closeSSHAgent, agentConn)
                       ELSE agentConn
       /\ defers' = Tail(defers)
    /\ UNCHANGED <<other, flagVars, authMethod, closeSSHAgent, close, keyKind, fallback,
                   passphrase, docVars, fileVars, pc, err>>

Exit ==
    /\ pc = "return"
    /\ defers = <<>>
    /\ pc' = "done"
    /\ UNCHANGED <<other, flagVars, credVars, docVars, fileVars, opState, defers, log, err>>

\* ------------------------------------------------------------ specification

KeyPaths == {"", "id_rsa"}

\* install.go:155: `if local` chooses the branch of RunE.
FirstStepAlwaysRemote(isLocal) == "loadAuthMethod"

FirstStep(isLocal) == IF isLocal THEN "localInstall" ELSE "loadAuthMethod"

\* No second invocation runs.
NoOther == [pc |-> "none", doc |-> <<>>, kubeconfig |-> <<>>, mergeData |-> <<>>,
            err |-> Nil, tempFile |-> NoFile]

Fresh ==
    /\ other = NoOther
    /\ err = Nil
    /\ defers = <<>>
    /\ authMethod = Nil
    /\ closeSSHAgent = "noop"
    /\ close = "noop"
    /\ agentConn = "none"
    /\ keyKind = "-"
    /\ fallback = "-"
    /\ passphrase = "-"
    /\ kubeconfig = <<>>
    /\ mergeOutcome = "-"
    /\ mergeData = <<>>
    /\ tempFile = NoFile

Init ==
    /\ local \in BOOLEAN
    /\ skipInstall \in BOOLEAN
    /\ merge \in BOOLEAN
    /\ sshKeyPath \in KeyPaths
    /\ ip \in TargetAddresses
    /\ context \in {<<>>, <<"k", "3">>}
    /\ destFile \in {NoFile} \cup {File(d) : d \in ExistingDocs}
    /\ pc = FirstStep(local)
    /\ log = <<>>
    /\ opState = "Unopened"
    /\ resStdOut = <<>>
    /\ Fresh

Next ==
    \/ LoadAuthMethod
    \/ AgentFallback
    \/ PromptPassphrase
    \/ NewSSHOperator
    \/ RemoteInstall
    \/ LocalInstall
    \/ ExecuteGetConfig
    \/ Rewrite
    \/ MergeConfigs
    \/ WriteConfig
    \/ RunDeferred
    \/ Exit

Spec == Init /\ [][Next]_vars

\* rewriteKubeconfig on its own: a local run that has just retrieved a
\* document, over all documents, target addresses and context names.
InitRewrite ==
    /\ local = TRUE
    /\ skipInstall = FALSE
    /\ merge = FALSE
    /\ sshKeyPath = ""
    /\ ip \in TargetAddresses
    /\ context \in ContextNames
    /\ destFile = NoFile
    /\ pc = "rewrite"
    /\ log = << [op |-> "install", ok |-> TRUE, st |-> "Open"],
                [op |-> "retrieve", ok |-> TRUE, st |-> "Open"] >>
    /\ opState = "Open"
    /\ resStdOut \in Documents
    /\ Fresh

NextRewrite == Rewrite

SpecRewrite == InitRewrite /\ [][NextRewrite]_vars

\* ------------------------------------------- two runs on one destination

\* The second invocation runs the same obtainKubeconfig code in another
\* process: its own locals and temporary file, the same file at absPath.
OtherAddress == <<"1", "0", ".", "0", ".", "0", ".", "1">>

OtherContext == <<"p", "r", "o", "d">>

\* install.go:269-275 and 298-330, in the second invocation.
OtherMergeConfigs ==
    /\ other.pc = "mergeConfigs"
    /\ \E outcome \in MergeOutcomes :
         LET captured == IF outcome \in {"TempCleanupError", "ok"}
                         THEN KubectlView(destFile, other.kubeconfig) ELSE <<>>
             ret == MergeReturn(outcome, captured)
         IN
         /\ other' = [other EXCEPT
                        !.pc = IF outcome = "ok" THEN "writeConfig" ELSE "done",
                        !.mergeData = captured,
                        !.tempFile = TempFileAfter(outcome, other.kubeconfig),
                        !.kubeconfig = ret.data,
                        !.err = IF outcome = "ok" THEN other.err ELSE outcome]
         /\ log' = log \o <<Ev("other.merge", outcome = "ok")>>
    /\ UNCHANGED <<flagVars, credVars, docVars, fileVars, opState, defers, pc, err>>

\* install.go:277-281 and 285-296, in the second invocation.
OtherWriteConfig ==
    /\ other.pc = "writeConfig"
    /\ \E outcome \in WriteOutcomes :
         /\ destFile' = WriteFile(destFile, other.kubeconfig, outcome)
         /\ other' = [other EXCEPT
                        !.pc = "done",
                        !.err = IF outcome = "ok" THEN other.err ELSE "PersistError"]
         /\ log' = log \o <<Ev("other.write", outcome = "ok")>>
    /\ UNCHANGED <<flagVars, credVars, docVars, tempFile, opState, defers, pc, err>>

\* Two local runs with --merge that have both retrieved and rewritten their
\* document and are about to merge it into the same destination.
InitTwoRuns ==
    /\ local = TRUE
    /\ skipInstall = FALSE
    /\ merge = TRUE
    /\ sshKeyPath = ""
    /\ ip = <<"9", ".", "9", ".", "9", ".", "9">>
    /\ context = <<"k", "3">>
    /\ destFile \in {NoFile} \cup {File(d) : d \in ExistingDocs}
    /\ pc = "mergeConfigs"
    /\ log = << [op |-> "install", ok |-> TRUE, st |-> "Open"],
                [op |-> "retrieve", ok |-> TRUE, st |-> "Open"],
                [op |-> "rewrite", ok |-> TRUE, st |-> "Open"] >>
    /\ opState = "Open"
    /\ resStdOut \in RetrievedDocs
    /\ kubeconfig = rewriteKubeconfig(resStdOut, ip, context)
    /\ \E d \in RetrievedDocs :
         LET rewritten == rewriteKubeconfig(d, OtherAddress, OtherContext) IN
         other = [pc |-> "mergeConfigs", doc |-> rewritten, kubeconfig |-> rewritten,
                  mergeData |-> <<>>, err |-> Nil, tempFile |-> NoFile]
    /\ err = Nil
    /\ defers = <<>>
    /\ authMethod = Nil
    /\ closeSSHAgent = "noop"
    /\ close = "noop"
    /\ agentConn = "none"
    /\ keyKind = "-"
    /\ fallback = "-"
    /\ passphrase = "-"
    /\ mergeOutcome = "-"
    /\ mergeData = <<>>
    /\ tempFile = NoFile

NextTwoRuns ==
    \/ MergeConfigs
    \/ WriteConfig
    \/ Exit
    \/ OtherMergeConfigs
    \/ OtherWriteConfig

SpecTwoRuns == InitTwoRuns /\ [][NextTwoRuns]_vars

\* ------------------------------------------------------------------ claims

Finished == pc = "done"

DialFailed == \E i \in 1..Len(log) : log[i].op = "dial" /\ ~log[i].ok

\* C1: once mergeConfigs has returned, whatever its outcome, the temporary
\* file it created does not exist.
C1_TempFileGoneAfterMerge == Did("merge") => ~tempFile.exists

\* C2: in a remote run whose credential resolution succeeded, the close
\* function returned by loadAuthMethod is never invoked twice, and it has been
\* invoked exactly once when the run has ended, whatever step the run ended at.
C2_AuthClosedExactlyOnce ==
    /\ Count("closeSSHAgent") <= 1
    /\ (Finished /\ Succeeded("resolve")) => Count("closeSSHAgent") = 1
    /\ ~Succeeded("resolve") => Count("closeSSHAgent") = 0

C2_Witness ==
    /\ Finished
    /\ Succeeded("resolve")
    /\ err = "MergeToolError"
    /\ Count("closeSSHAgent") = 1

\* C3: a readable key file that fails to parse for another reason than a
\* missing passphrase ends resolution at once with KeyParseError: no agent
\* dial, no read of the public key file, no passphrase prompt.
C3_CorruptKeyFailsAtOnce ==
    keyKind = "corrupt" =>
        /\ err = "KeyParseError"
        /\ pc \in {"return", "done"}
        /\ authMethod = Nil
        /\ ~Did("dial")
        /\ ~Did("readPub")
        /\ ~Did("prompt")

C3_Witness == keyKind = "corrupt" /\ Finished /\ err = "KeyParseError"

\* C4: for a passphrase-protected key whose agent fallback did not succeed,
\* the passphrase prompt is issued exactly once; the correct passphrase gives
\* a usable auth method, a wrong one fails with PassphraseParseError and no
\* further prompt.
C4_PromptsOnce ==
    (keyKind = "encrypted" /\ fallback \notin {"-", "match"}) =>
        /\ Count("prompt") <= 1
        /\ Did("resolve") => Count("prompt") = 1
        /\ passphrase = "correct" =>
              /\ Succeeded("resolve")
              /\ authMethod = "signer"
              /\ err # "PassphraseParseError"
        /\ passphrase = "wrong" =>
              /\ ~Succeeded("resolve")
              /\ authMethod = Nil
              /\ err = "PassphraseParseError"
              /\ pc \in {"return", "done"}

C4_Witness ==
    /\ keyKind = "encrypted"
    /\ fallback = "nomatch"
    /\ passphrase = "wrong"
    /\ Finished
    /\ Count("prompt") = 1

\* C5: a remote run with an empty key path whose agent socket cannot be
\* dialed fails with AgentUnreachable and never opens the transport, executes
\* a command or writes the destination file.
C5_AgentUnreachableStopsRun ==
    (~local /\ sshKeyPath = "" /\ DialFailed) =>
        /\ err = "AgentUnreachable"
        /\ pc \in {"return", "done"}
        /\ opState = "Unopened"
        /\ ~Did("open")
        /\ ~Did("install")
        /\ ~Did("retrieve")
        /\ ~Did("write")

C5_Witness == ~local /\ sshKeyPath = "" /\ DialFailed /\ Finished

Executes == {"install", "retrieve"}

C6_Lifecycle ==
    /\ opState \in {"Unopened", "Open", "Closed"}
    /\ \A i \in 1..Len(log) : log[i].op \in Executes => log[i].st = "Open"
    /\ \A i, j \in 1..Len(log) :
          (i < j /\ log[i].op = "operator.Close") => log[j].op \notin Executes
    /\ Count("operator.Close") <= 1
    /\ Count("operator.Close") = 1 <=> opState = "Closed"
    /\ local => Count("operator.Close") = 0
    /\ (Finished /\ ~local /\ Succeeded("open")) => opState = "Closed"

C6_Step ==
    opState' # opState =>
        \/ opState = "Unopened" /\ opState' = "Open"
        \/ opState = "Open" /\ opState' = "Closed"

\* C6: the operator only goes Unopened -> Open -> Closed; every execute is
\* issued on an open operator and none after the close; a remote operator that
\* was opened has been closed exactly once when the run has ended; the local
\* operator is never closed.
C6_OperatorLifecycle == []C6_Lifecycle /\ [][C6_Step]_vars

C6_Witness ==
    /\ Finished
    /\ ~local
    /\ Succeeded("open")
    /\ err = "ExecutionError"
    /\ opState = "Closed"
    /\ Count("operator.Close") = 1

\* a is a subsequence of b: b with some elements removed.
RECURSIVE IsSubsequence(_, _)
IsSubsequence(a, b) ==
    IF a = <<>> THEN TRUE
    ELSE IF b = <<>> THEN FALSE
    ELSE IF Head(a) = Head(b) THEN IsSubsequence(Tail(a), Tail(b))
    ELSE IsSubsequence(a, Tail(b))

TokenFree(s) == \A t \in Tokens : ~Contains(s, t)

\* A replacement text that cannot form a token, alone or with its neighbours.
Inert(r) ==
    /\ r # <<>>
    /\ TokenFree(r)
    /\ r[1] \notin TokenChars
    /\ r[Len(r)] \notin TokenChars

\* Two occurrences of 127.0.0.1 sharing their "1".
OverlappingLoopbacks(s) ==
    \E i \in 1..Len(s) :
        HasPrefixAt(s, i, Loopback) /\ HasPrefixAt(s, i + Len(Loopback) - 1, Loopback)

\* C7 as stated: whatever the document, the target address and the context
\* name, the rewritten document holds no 127.0.0.1, no localhost, no default.
C7_NoTokenRemains == Did("rewrite") => TokenFree(kubeconfig)

\* C7, amended: the rewritten document is free of the three tokens when the
\* target address and the effective context name are inert; a document without
\* tokens is returned unchanged; the bytes outside the tokens are kept in
\* order; and each occurrence accounts for exactly one replacement.
C7_RewriteReplaces ==
    Did("rewrite") =>
        LET c == EffectiveContext(context) IN
        /\ (Inert(ip) /\ Inert(c)) => TokenFree(kubeconfig)
        /\ TokenFree(resStdOut) => kubeconfig = resStdOut
        /\ IsSubsequence(Replace(KubeconfigReplacer(<<>>, <<>>), resStdOut), kubeconfig)
        /\ ~OverlappingLoopbacks(resStdOut) =>
              Len(kubeconfig) = Len(resStdOut)
                  + Occurrences(resStdOut, Loopback) * (Len(ip) - Len(Loopback))
                  + Occurrences(resStdOut, Localhost) * (Len(ip) - Len(Localhost))
                  + Occurrences(resStdOut, Default) * (Len(c) - Len(Default))

C7_Witness ==
    /\ Did("rewrite")
    /\ resStdOut = Localhost \o Default
    /\ Inert(ip)
    /\ Inert(context)
    /\ kubeconfig = ip \o context

\* C8: when the merge tool succeeded and only the removal of the temporary
\* file failed, the run reports TempCleanupError and mergeConfigs still hands
\* back the merged document it captured.
C8_MergedDocumentKept ==
    mergeOutcome = "TempCleanupError" =>
        /\ err = "TempCleanupError"
        /\ kubeconfig = mergeData

\* C9: with --skip-install the install command is never executed, in a local
\* run as in a remote one.
C9_SkipInstallSkipsInstaller == skipInstall => ~Did("install")

MainSteps == <<"resolve", "open", "install", "retrieve", "rewrite", "merge", "write">>

Rank(op) == CHOOSE k \in 1..Len(MainSteps) : MainSteps[k] = op

IsMainStep(op) == \E k \in 1..Len(MainSteps) : MainSteps[k] = op

Before(j, op) == \E i \in 1..(j - 1) : log[i].op = op /\ log[i].ok

C10_Order ==
    /\ \A i, j \in 1..Len(log) :
          (i < j /\ IsMainStep(log[i].op) /\ IsMainStep(log[j].op)) =>
              /\ Rank(log[i].op) < Rank(log[j].op)
              /\ log[i].ok
    /\ \A j \in 1..Len(log) :
          LET op == log[j].op IN
          /\ op = "resolve" => ~local
          /\ op = "open" => Before(j, "resolve")
          /\ op = "install" => (local \/ Before(j, "open"))
          /\ op = "retrieve" =>
                /\ local \/ Before(j, "open")
                /\ Before(j, "install") \/ (~local /\ skipInstall)
          /\ op = "rewrite" => Before(j, "retrieve")
          /\ op = "merge" => merge /\ Before(j, "rewrite")
          /\ op = "write" =>
                /\ Before(j, "rewrite")
                /\ merge => Before(j, "merge")
    /\ (err # Nil /\ ~Did("write")) => pc \in {"return", "done"}

C10_DestStep ==
    destFile' # destFile =>
        /\ pc = "writeConfig"
        /\ Succeeded("retrieve")
        /\ merge => Succeeded("merge")
        /\ err = Nil

\* C10: the steps of a run happen in the order resolve, open, install,
\* retrieve, rewrite, merge, write, each only after the previous one
\* succeeded; the destination file changes only in the write step, after the
\* retrieval (and the merge, if requested) succeeded, so a run that fails
\* before that step leaves it as it was.
C10_StepsInOrder == []C10_Order /\ [][C10_DestStep]_vars

C10_Witness ==
    /\ Finished
    /\ ~local
    /\ merge
    /\ err = Nil
    /\ Succeeded("write")
    /\ destFile = File(mergeData)

\* C11: rewriteKubeconfig with the empty context name gives the same bytes as
\* with the context name "default": both leave every "default" in place and
\* replace the two addresses.
C11_EmptyContextIsDefault ==
    (Did("rewrite") /\ context \in {<<>>, Default}) =>
        /\ kubeconfig = Replace(KubeconfigReplacer(ip, Default), resStdOut)
        /\ kubeconfig = rewriteKubeconfig(resStdOut, ip, Default)
        /\ kubeconfig = rewriteKubeconfig(resStdOut, ip, <<>>)
        /\ Occurrences(kubeconfig, Default) >= Occurrences(resStdOut, Default)

C11_Witness ==
    /\ Did("rewrite")
    /\ context = <<>>
    /\ resStdOut = Localhost \o Default
    /\ kubeconfig = ip \o Default

\* C12: when the run has ended, no connection to the agent socket dialed
\* during credential resolution is still open.
C12_AgentConnClosed == Finished => agentConn # "open"

\* C13: for a passphrase-protected key no failure of the agent fallback fails
\* the resolution: each leads to the passphrase prompt; a matching identity
\* gives the agent-backed auth method and no prompt.
C13_FallbackFallsThrough ==
    (keyKind = "encrypted" /\ fallback # "-") =>
        /\ fallback = "match" =>
              /\ Succeeded("resolve")
              /\ authMethod = "agentKey"
              /\ closeSSHAgent = "connClose"
              /\ ~Did("prompt")
              /\ passphrase = "-"
        /\ fallback # "match" =>
              /\ authMethod # "agentKey"
              /\ \/ pc = "ReadPassword" /\ err = Nil /\ ~Did("resolve")
                 \/ Count("prompt") = 1
              /\ err \notin {"AgentUnreachable", "KeyReadError", "KeyParseError"}

C13_Witness ==
    /\ keyKind = "encrypted"
    /\ fallback = "pubcorrupt"
    /\ Count("prompt") = 1
    /\ passphrase = "correct"
    /\ Finished
    /\ err = Nil

\* C14: a readable key that parses as an unencrypted private key gives the
\* signer's auth method with the no-op close, without a dial of the agent, a
\* read of the public key file or a prompt.
C14_PlainKeyResolves ==
    keyKind = "plain" =>
        /\ Succeeded("resolve")
        /\ Count("resolve") = 1
        /\ authMethod = "signer"
        /\ closeSSHAgent = "noop"
        /\ agentConn = "none"
        /\ ~Did("dial")
        /\ ~Did("readPub")
        /\ ~Did("prompt")
        /\ err \notin {"KeyReadError", "KeyParseError", "PassphraseParseError"}

C14_Witness == keyKind = "plain" /\ Finished /\ err = Nil /\ Succeeded("write")

AnyFailureBefore(j) == \E i \in 1..(j - 1) : IsMainStep(log[i].op) /\ ~log[i].ok

\* C15: nothing is retried: a run resolves, opens, installs and retrieves at
\* most once each, and executes no command after its first failing step.
C15_NoRetry ==
    /\ Count("resolve") <= 1
    /\ Count("open") <= 1
    /\ Count("install") <= 1
    /\ Count("retrieve") <= 1
    /\ \A j \in 1..Len(log) : log[j].op \in Executes => ~AnyFailureBefore(j)

C15_Witness ==
    /\ Finished
    /\ ~local
    /\ err = "ExecutionError"
    /\ Count("install") = 1
    /\ \E i \in 1..Len(log) : log[i].op = "install" /\ ~log[i].ok
    /\ ~Did("retrieve")

\* C16: a local run never resolves credentials: no dial of the agent, no read
\* of a key file, no prompt, no transport connection; a remote run that
\* reaches the open step has produced exactly one auth method.
C16_LocalNeedsNoCredentials ==
    /\ local =>
          /\ ~Did("resolve")
          /\ ~Did("dial")
          /\ ~Did("readKey")
          /\ ~Did("readPub")
          /\ ~Did("prompt")
          /\ ~Did("open")
          /\ authMethod = Nil
          /\ agentConn = "none"
    /\ (~local /\ (pc = "NewSSHOperator" \/ Did("open"))) =>
          /\ Count("resolve") = 1
          /\ Succeeded("resolve")
          /\ authMethod \in {"agentSigners", "agentKey", "signer"}

C16_Witness == local /\ Finished /\ err = Nil /\ Succeeded("write")

IsPrefix(a, b) == Len(a) <= Len(b) /\ SubSeq(b, 1, Len(a)) = a

\* The bytes a run is to persist, given the file now at the destination.
ExpectedBytes ==
    IF merge
    THEN KubectlView(destFile, rewriteKubeconfig(resStdOut, ip, context))
    ELSE rewriteKubeconfig(resStdOut, ip, context)

C17_Final ==
    (Finished /\ err = Nil) =>
        /\ destFile.exists
        /\ merge => destFile.data = mergeData
        /\ ~merge => destFile.data = rewriteKubeconfig(resStdOut, ip, context)

C17_Step ==
    destFile' # destFile =>
        /\ destFile'.exists
        /\ IsPrefix(destFile'.data, ExpectedBytes)
        /\ err' = Nil => destFile'.data = ExpectedBytes

\* C17: a successful run leaves at the destination exactly the merge tool's
\* output for the existing file and the rewritten document (with --merge) or
\* exactly the rewritten document (without); no step stores other bytes there.
C17_PersistedBytes == []C17_Final /\ [][C17_Step]_vars

C17_Witness ==
    /\ Finished
    /\ err = Nil
    /\ merge
    /\ mergeData = (<<"x", ":">> \o Default) \o rewriteKubeconfig(resStdOut, ip, context)
    /\ destFile = File(mergeData)

Index(op) == CHOOSE i \in 1..Len(log) : log[i].op = op

\* The document this run retrieved and rewrote, and the other run's.
Mine == rewriteKubeconfig(resStdOut, ip, context)

Theirs == other.doc

BothPersisted == Succeeded("write") /\ Succeeded("other.write")

\* One run read and wrote the destination before the other one read it.
OneAfterTheOther ==
    \/ Index("write") < Index("other.merge")
    \/ Index("other.write") < Index("merge")

\* C18: two runs with --merge on the same destination, one after the other,
\* leave a file holding the documents of both; when both have read the
\* destination before either has written it, nothing stops the second write
\* and the file lacks the document of the run that wrote first.
C18_TwoRuns ==
    BothPersisted =>
        /\ OneAfterTheOther =>
              /\ Contains(destFile.data, Mine)
              /\ Contains(destFile.data, Theirs)
        /\ (~OneAfterTheOther /\ Index("write") < Index("other.write")) =>
              /\ ~Contains(destFile.data, Mine)
              /\ Contains(destFile.data, Theirs)
        /\ (~OneAfterTheOther /\ Index("other.write") < Index("write")) =>
              /\ Contains(destFile.data, Mine)
              /\ ~Contains(destFile.data, Theirs)

C18_Witness ==
    /\ BothPersisted
    /\ pc = "done"
    /\ other.pc = "done"
    /\ err = Nil
    /\ other.err = Nil
    /\ ~OneAfterTheOther
    /\ ~Contains(destFile.data, Mine)

====
